---- MODULE Spec2Model ----
(***************************************************************************)
(* Print Studio API (src/main.py, src/schemas.py): the service catalog,    *)
(* the pricing formula of calculate_price, quote creation and the seeding  *)
(* endpoint, as a state machine over the two document collections.         *)
(*                                                                         *)
(* Money.  Every price the handlers store or return is a Python float,     *)
(* i.e. an IEEE-754 binary64.  The model computes with binary64 values     *)
(* exactly: a float is a record [m, e] with value m * 2^e, m an unbounded  *)
(* natural number held as a little-endian sequence of limbs, 2^52 <= m <   *)
(* 2^53 (or m = 0).  In the state a float that is the binary64 nearest to  *)
(* n/100 is written as the integer n ("hundredths"): catalog prices are    *)
(* such literals, and every result of round(x, 2) is one.                  *)
(***************************************************************************)
EXTENDS Integers, Sequences, FiniteSets, TLC

\* ------------------------------------------------------------------------
\* Unbounded naturals: little-endian limb sequences, no leading zero limb.
\* ------------------------------------------------------------------------
LimbBits == 13
Base == 2^LimbBits

RECURSIVE BigTrim(_)
BigTrim(a) ==
    IF Len(a) > 0 /\ a[Len(a)] = 0 THEN BigTrim(SubSeq(a, 1, Len(a) - 1)) ELSE a

RECURSIVE BigFromInt(_)
BigFromInt(n) ==
    IF n = 0 THEN <<>> ELSE <<n % Base>> \o BigFromInt(n \div Base)

RECURSIVE BigToInt(_)
BigToInt(a) ==
    IF a = <<>> THEN 0 ELSE a[1] + Base * BigToInt(Tail(a))

RECURSIVE BigMulSmallC(_, _, _)
BigMulSmallC(a, k, carry) ==
    IF a = <<>> THEN BigFromInt(carry)
    ELSE LET v == a[1] * k + carry
         IN  <<v % Base>> \o BigMulSmallC(Tail(a), k, v \div Base)

\* a * k for an integer 0 <= k < 2^17
BigMulSmall(a, k) == BigTrim(BigMulSmallC(a, k, 0))

RECURSIVE BigAddC(_, _, _)
BigAddC(a, b, carry) ==
    IF a = <<>> /\ b = <<>> THEN BigFromInt(carry)
    ELSE LET x == IF a = <<>> THEN 0 ELSE a[1]
             y == IF b = <<>> THEN 0 ELSE b[1]
             v == x + y + carry
         IN  <<v % Base>> \o BigAddC(IF a = <<>> THEN a ELSE Tail(a),
                                     IF b = <<>> THEN b ELSE Tail(b),
                                     v \div Base)

BigAdd(a, b) == BigTrim(BigAddC(a, b, 0))

RECURSIVE BigMulR(_, _)
BigMulR(a, b) ==
    IF a = <<>> THEN <<>>
    ELSE BigAddC(BigMulSmallC(b, a[1], 0), <<0>> \o BigMulR(Tail(a), b), 0)

BigMul(a, b) == BigTrim(BigMulR(a, b))

\* floor(a / d) for an integer 0 < d < 2^17, most significant limb first
RECURSIVE BigDivSmallR(_, _, _)
BigDivSmallR(a, d, rem) ==
    IF a = <<>> THEN <<>>
    ELSE LET v == rem * Base + a[Len(a)]
         IN  BigDivSmallR(SubSeq(a, 1, Len(a) - 1), d, v % d) \o <<v \div d>>

BigDivSmall(a, d) == BigTrim(BigDivSmallR(a, d, 0))

RECURSIVE BigModSmallR(_, _, _)
BigModSmallR(a, d, rem) ==
    IF a = <<>> THEN rem
    ELSE BigModSmallR(SubSeq(a, 1, Len(a) - 1), d, (rem * Base + a[Len(a)]) % d)

BigModSmall(a, d) == BigModSmallR(a, d, 0)

RECURSIVE IntBitLen(_)
IntBitLen(n) == IF n = 0 THEN 0 ELSE 1 + IntBitLen(n \div 2)

BigBitLen(a) ==
    IF a = <<>> THEN 0 ELSE (Len(a) - 1) * LimbBits + IntBitLen(a[Len(a)])

BigShl(a, n) ==
    IF a = <<>> THEN a
    ELSE BigMulSmall([i \in 1..(n \div LimbBits) |-> 0] \o a, 2^(n % LimbBits))

BigShr(a, n) ==
    IF n \div LimbBits >= Len(a) THEN <<>>
    ELSE BigDivSmall(SubSeq(a, n \div LimbBits + 1, Len(a)), 2^(n % LimbBits))

\* bit i of a (bit 0 is the least significant)
BigBit(a, i) ==
    IF i \div LimbBits >= Len(a) THEN 0
    ELSE (a[i \div LimbBits + 1] \div 2^(i % LimbBits)) % 2

\* the n low bits of a are all zero
BigLowZero(a, n) ==
    /\ \A i \in 1..(n \div LimbBits) : i > Len(a) \/ a[i] = 0
    /\ \/ n \div LimbBits >= Len(a)
       \/ a[n \div LimbBits + 1] % 2^(n % LimbBits) = 0

\* ------------------------------------------------------------------------
\* binary64 arithmetic, round-to-nearest ties-to-even, non-negative normal
\* values and zero (prices are never negative, never subnormal).
\* ------------------------------------------------------------------------
MantBits == 53

FZero == [m |-> <<>>, e |-> 0]

\* q * 2^e with q of MantBits bits, or of one more after a carry
FNormal(q, e) ==
    IF BigBitLen(q) > MantBits THEN [m |-> BigShr(q, 1), e |-> e + 1]
    ELSE [m |-> q, e |-> e]

\* q is the kept mantissa; half is the first dropped bit, low says a lower
\* dropped bit is set: round up above the half, and at the half to even
FRoundQ(q, e, half, low) ==
    FNormal(IF half /\ (low \/ BigBit(q, 0) = 1) THEN BigAdd(q, <<1>>) ELSE q, e)

\* FRound for an n of L bits
FRoundL(n, e, sticky, L) ==
    IF L = 0 THEN FZero
    ELSE IF L <= MantBits
    THEN [m |-> BigShl(n, MantBits - L), e |-> e - (MantBits - L)]
    ELSE FRoundQ(BigShr(n, L - MantBits), e + (L - MantBits),
                 BigBit(n, L - MantBits - 1) = 1,
                 sticky \/ ~BigLowZero(n, L - MantBits - 1))

\* The binary64 nearest to (n + f) * 2^e, where 0 <= f < 1 and sticky says
\* f > 0; with sticky, n has more than MantBits + 1 bits.
FRound(n, e, sticky) == FRoundL(n, e, sticky, BigBitLen(n))

\* float(n) for an int n >= 0
FFromInt(n) == FRound(BigFromInt(n), 0, FALSE)

\* the binary64 nearest to n / d (how a decimal literal n/100 is read, and
\* what round() returns for the decimal it selected)
FFromRatioN(N, d) == FRound(BigDivSmall(N, d), -70, BigModSmall(N, d) # 0)

FFromRatio(n, d) == FFromRatioN(BigShl(BigFromInt(n), 70), d)

FMul(x, y) ==
    IF x.m = <<>> \/ y.m = <<>> THEN FZero
    ELSE FRound(BigMul(x.m, y.m), x.e + y.e, FALSE)

\* x + y with both mantissas aligned at the exponent e
FAddE(x, y, e) ==
    FRound(BigAdd(BigShl(x.m, x.e - e), BigShl(y.m, y.e - e)), e, FALSE)

FAdd(x, y) ==
    IF x.m = <<>> THEN y
    ELSE IF y.m = <<>> THEN x
    ELSE FAddE(x, y, IF x.e < y.e THEN x.e ELSE y.e)

\* Python round(x, 2) for a float x >= 0, as the number of hundredths it
\* selects: the exact binary value of x is rounded to two decimals, ties to
\* even (float.__round__, correctly rounded); the float returned is
\* FFromRatio(Round2(x), 100).
Round2Q(q, half, low) == IF half /\ (low \/ q % 2 = 1) THEN q + 1 ELSE q

\* N * 2^e rounded to an integer, ties to even
Round2N(N, e) ==
    IF e >= 0 THEN BigToInt(BigShl(N, e))
    ELSE Round2Q(BigToInt(BigShr(N, 0 - e)),
                 BigBit(N, (0 - e) - 1) = 1,
                 ~BigLowZero(N, (0 - e) - 1))

Round2(x) == IF x.m = <<>> THEN 0 ELSE Round2N(BigMulSmall(x.m, 100), x.e)

\* the float written n in the state
H(n) == FFromRatio(n, 100)

\* ------------------------------------------------------------------------
\* The pricing formula of calculate_price (src/main.py:126-145).
\* A service is a record [key, base_price, color_price_per_color,
\* print_area_multiplier, minimum_quantity], its three floats in hundredths.
\* ------------------------------------------------------------------------
Max(a, b) == IF a >= b THEN a ELSE b

\* variant: a print_area outside the map selects the service's multiplier
AreaMultNoDefault(svc, print_area) ==
    CASE print_area = "small"  -> 90
      [] print_area = "medium" -> 100
      [] OTHER                 -> svc.print_area_multiplier

\* area_multiplier_map.get(req.print_area, 1.0), in hundredths
AreaMult(svc, print_area) ==
    CASE print_area = "small"  -> 90
      [] print_area = "medium" -> 100
      [] print_area = "large"  -> svc.print_area_multiplier
      [] OTHER                 -> 100

\* variant: the operands of the subtraction swapped, max(0, 1 - colors)
ColorAddSwapped(svc, colors) ==
    FMul(FFromInt(Max(0, 1 - colors)), H(svc.color_price_per_color))

\* color_add = max(0, req.colors - 1) * svc.color_price_per_color
ColorAdd(svc, colors) ==
    FMul(FFromInt(Max(0, colors - 1)), H(svc.color_price_per_color))

\* unit_price = round((unit + color_add) * area_mult, 2), in hundredths
PreDiscountUnit(svc, colors, print_area) ==
    Round2(FMul(FAdd(H(svc.base_price), ColorAdd(svc, colors)),
                H(AreaMult(svc, print_area))))

\* variant: "if" in place of "elif", the factors of all reached tiers stack
ApplyDiscountStacked(unit_price, quantity) ==
    LET a == IF quantity >= 100 THEN FMul(unit_price, H(75)) ELSE unit_price
        b == IF quantity >= 50 THEN FMul(a, H(82)) ELSE a
    IN  IF quantity >= 20 THEN FMul(b, H(90)) ELSE b

\* the volume discount chain; the float unit_price before the second round
ApplyDiscount(unit_price, quantity) ==
    IF quantity >= 100 THEN FMul(unit_price, H(75))
    ELSE IF quantity >= 50 THEN FMul(unit_price, H(82))
    ELSE IF quantity >= 20 THEN FMul(unit_price, H(90))
    ELSE unit_price

\* unit_price = round(unit_price, 2) after the discount, in hundredths
UnitPrice(svc, quantity, colors, print_area) ==
    Round2(ApplyDiscount(H(PreDiscountUnit(svc, colors, print_area)), quantity))

\* total_price = round(unit_price * req.quantity, 2), in hundredths
TotalPrice(unit_price, quantity) ==
    Round2(FMul(H(unit_price), FFromInt(quantity)))

\* variant: the total taken from the unit price before its second rounding
PriceOfUnroundedTotal(svc, quantity, colors, print_area) ==
    [unit_price  |-> UnitPrice(svc, quantity, colors, print_area),
     total_price |-> Round2(FMul(ApplyDiscount(H(PreDiscountUnit(svc, colors, print_area)),
                                               quantity),
                                 FFromInt(Max(0, quantity)))),
     area_mult   |-> AreaMult(svc, print_area)]

\* The result of the formula for one (svc, quantity, colors, print_area),
\* the locals of calculate_price at line 145.
PriceOf(svc, quantity, colors, print_area) ==
    [unit_price  |-> UnitPrice(svc, quantity, colors, print_area),
     total_price |-> TotalPrice(UnitPrice(svc, quantity, colors, print_area),
                                Max(0, quantity)),
     area_mult   |-> AreaMult(svc, print_area)]

\* ------------------------------------------------------------------------
\* Bounds and input sets
\* ------------------------------------------------------------------------
NumThreads == 2      \* request-handling threads of the server's pool
MaxQuotes  == 2      \* quote creations admitted (the collection is unbounded)
MaxColors  == 3      \* colors of a price request range over 0..MaxColors
MaxServices == 6     \* documents admitted in the service collection

Threads == 1..NumThreads

\* Optional[float]: None is <<>>, a value v is <<v>>
None == <<>>
Some(v) == <<v>>

\* Service (src/schemas.py:19-27); name, description and categories take no
\* part in any handler's decision and are left out of the record.
Service(key, base_price, color_price_per_color, print_area_multiplier, minimum_quantity) ==
    [key |-> key, base_price |-> base_price,
     color_price_per_color |-> color_price_per_color,
     print_area_multiplier |-> print_area_multiplier,
     minimum_quantity |-> minimum_quantity]

\* the three services seed_services inserts
defaults ==
    << Service("tshirt",   600, 35, 100, 1),
       Service("tote_bag", 400, 25, 110, 1),
       Service("hoodie",  1200, 40, 120, 1) >>

\* services an administrator put into a catalog that was not seeded
CustomServices ==
    << Service("mug",     350, 20, 135, 25),
       Service("sticker",   0, 99,  10, 1) >>

WithIds(docs) == [i \in DOMAIN docs |-> [_id |-> i] @@ docs[i]]

\* the catalogs a run starts from: none yet, the seeded one, a custom one
Catalogs == {<<>>, WithIds(defaults), WithIds(CustomServices)}

ServiceKeys == {"tshirt", "tote_bag", "hoodie", "mug", "sticker", "nope"}
Quantities  == {0, 1, 19, 20, 49, 50, 99, 100}
Colors      == 0..MaxColors
PrintAreas  == {"small", "medium", "large", "huge"}

\* PriceRequest (src/main.py:100-104): no field is constrained
PriceRequests ==
    [service_key : ServiceKeys, quantity : Quantities,
     colors : Colors, print_area : PrintAreas]

\* the price requests issued while other handlers are in flight
ConcurrentPriceRequests ==
    [service_key : {"tshirt", "mug", "nope"}, quantity : {1},
     colors : {1}, print_area : {"medium"}]

\* QuoteRequest (src/schemas.py:30-38) as validated at the boundary:
\* quantity in 1..100000, colors in 1..10, print_area one of the three
\* literals, estimated_total optional and >= 0.
QuoteRequest(service_key, quantity, estimated_total) ==
    [customer_name |-> "Ann", service_key |-> service_key, quantity |-> quantity,
     colors |-> 2, print_area |-> "large", estimated_total |-> estimated_total]

QuoteRequests ==
    {QuoteRequest("tshirt", 1, None), QuoteRequest("tshirt", 1, Some(5)),
     QuoteRequest("mug", 1, None), QuoteRequest("mug", 100, Some(5)),
     QuoteRequest("nope", 1, None)}

ServiceUniverse ==
    {defaults[i] : i \in DOMAIN defaults} \cup {CustomServices[i] : i \in DOMAIN CustomServices}

\* PriceOf for every service and every input of the model, computed once
\* (merging with the empty function makes TLC evaluate the whole table when
\* it loads the module, instead of at every use)
Priced ==
    [s \in ServiceUniverse, q \in Quantities, c \in Colors \cup {1, 2}, a \in PrintAreas
        |-> PriceOf(s, q, c, a)] @@ <<>>

\* ------------------------------------------------------------------------
\* State
\* ------------------------------------------------------------------------
VARIABLES
    db,            \* the store handle imported from database: "None" or "db"
    service,       \* the "service" collection, in insertion order
    quoterequest,  \* the "quoterequest" collection, in insertion order
    pc,            \* pc[t]: where thread t is in the handler it runs
    local,         \* local[t]: that handler's local variables
    response       \* the last response sent, with the request it answers

vars == <<db, service, quoterequest, pc, local, response>>

NoLocal == [op |-> "none"]

Init ==
    /\ db \in {"None", "db"}
    /\ service \in (IF db = "None" THEN {<<>>} ELSE Catalogs)
    /\ quoterequest = <<>>
    /\ pc = [t \in Threads |-> "idle"]
    /\ local = [t \in Threads |-> NoLocal]
    /\ response = [op |-> "none", status |-> 0]

\* ------------------------------------------------------------------------
\* The document store (database.create_document, pymongo find_one /
\* count_documents)
\* ------------------------------------------------------------------------
\* the generated identifier of the next inserted document
NewId == Len(service) + Len(quoterequest) + 1

\* create_document(collection_name, data): append, return the generated id
create_document(collection, data) == Append(collection, [_id |-> NewId] @@ data)

HasService(key) == \E i \in DOMAIN service : service[i].key = key

\* db["service"].find_one({"key": key}): the first match in natural order
find_one(key) ==
    service[CHOOSE i \in DOMAIN service :
                /\ service[i].key = key
                /\ \A j \in 1..(i - 1) : service[j].key # key]

\* Service(**{k: v for k, v in svc_doc.items() if k != "_id"})
ServiceOf(svc_doc) ==
    Service(svc_doc.key, svc_doc.base_price, svc_doc.color_price_per_color,
            svc_doc.print_area_multiplier, svc_doc.minimum_quantity)

\* ------------------------------------------------------------------------
\* calculate_price (src/main.py:116-157) as the function create_quote calls:
\* the HTTPException it raises or the PriceResponse it returns.
\* ------------------------------------------------------------------------
StoreError == [status |-> 500, detail |-> "Database not configured"]

\* lines 147-157, p the formula's result for the request
PriceResponseOf(svc, req, p) ==
    [status |-> 200,
     unit_price |-> p.unit_price,
     total_price |-> p.total_price,
     breakdown |-> [base |-> svc.base_price,
                    colors |-> req.colors,
                    color_add_per_unit |-> svc.color_price_per_color,
                    area_multiplier |-> p.area_mult,
                    volume_discounts |-> TRUE]]

PriceResponse(svc, req) ==
    PriceResponseOf(svc, req, Priced[svc, req.quantity, req.colors, req.print_area])

\* variant: the minimum-quantity check left out
CalculatePriceNoMinimum(req) ==
    IF db = "None" THEN StoreError
    ELSE IF ~HasService(req.service_key)
    THEN [status |-> 404, detail |-> "Service not found"]
    ELSE PriceResponse(ServiceOf(find_one(req.service_key)), req)

\* variant: the store check left out, the lookup decides first
CalculatePriceNoStoreCheck(req) ==
    IF ~HasService(req.service_key)
    THEN [status |-> 404, detail |-> "Service not found"]
    ELSE LET svc == ServiceOf(find_one(req.service_key))
         IN  IF req.quantity < svc.minimum_quantity
             THEN [status |-> 400, detail |-> "Minimum quantity",
                   minimum_quantity |-> svc.minimum_quantity]
             ELSE PriceResponse(svc, req)

CalculatePrice(req) ==
    IF db = "None" THEN StoreError
    ELSE IF ~HasService(req.service_key)
    THEN [status |-> 404, detail |-> "Service not found"]
    ELSE LET svc == ServiceOf(find_one(req.service_key))
         IN  IF req.quantity < svc.minimum_quantity
             THEN [status |-> 400, detail |-> "Minimum quantity",
                   minimum_quantity |-> svc.minimum_quantity]
             ELSE PriceResponse(svc, req)

\* POST /price
calculate_price(t, req) ==
    /\ pc[t] = "idle"
    /\ LET res == CalculatePrice(req)
       IN  response' = [op |-> "calculate_price", req |-> req,
                        status |-> res.status, res |-> res]
    /\ UNCHANGED <<db, service, quoterequest, pc, local>>

\* ------------------------------------------------------------------------
\* create_quote (src/main.py:159-174)
\* ------------------------------------------------------------------------
QuotesInFlight == Cardinality({t \in Threads : pc[t] = "create_quote_insert"})

\* PriceRequest(service_key=q.service_key, quantity=q.quantity, ...)
PriceRequestOf(q) ==
    [service_key |-> q.service_key, quantity |-> q.quantity,
     colors |-> q.colors, print_area |-> q.print_area]

\* variant: the document is created before the price is computed
create_quote_persist_first(t, q) ==
    /\ pc[t] = "idle"
    /\ Len(quoterequest) + QuotesInFlight < MaxQuotes
    /\ LET price == IF db = "None" THEN StoreError ELSE CalculatePrice(PriceRequestOf(q))
       IN  /\ quoterequest' = IF db = "None" THEN quoterequest
                              ELSE create_document(quoterequest, q)
           /\ response' = [op |-> "create_quote", req |-> q,
                           status |-> price.status, res |-> price]
    /\ UNCHANGED <<db, service, pc, local>>

\* variant: a total the caller supplied is kept
create_quote_keep_supplied(t, q) ==
    /\ pc[t] = "idle"
    /\ Len(quoterequest) + QuotesInFlight < MaxQuotes
    /\ LET price == IF db = "None" THEN StoreError ELSE CalculatePrice(PriceRequestOf(q))
       IN  IF price.status # 200
           THEN /\ response' = [op |-> "create_quote", req |-> q,
                                status |-> price.status, res |-> price]
                /\ UNCHANGED <<pc, local>>
           ELSE /\ pc' = [pc EXCEPT ![t] = "create_quote_insert"]
                /\ local' = [local EXCEPT ![t] =
                       [op |-> "create_quote", request |-> q,
                        q |-> IF q.estimated_total = None
                              THEN [q EXCEPT !.estimated_total = Some(price.total_price)]
                              ELSE q,
                        price |-> price]]
                /\ UNCHANGED response
    /\ UNCHANGED <<db, service, quoterequest>>

\* lines 161-172: the store check, the price, q.estimated_total = total.
\* local[t].request is the request as it was received, local[t].q the
\* QuoteRequest object the handler has updated.
create_quote_price(t, q) ==
    /\ pc[t] = "idle"
    /\ Len(quoterequest) + QuotesInFlight < MaxQuotes
    /\ LET price == IF db = "None" THEN StoreError ELSE CalculatePrice(PriceRequestOf(q))
       IN  IF price.status # 200
           THEN /\ response' = [op |-> "create_quote", req |-> q,
                                status |-> price.status, res |-> price]
                /\ UNCHANGED <<pc, local>>
           ELSE /\ pc' = [pc EXCEPT ![t] = "create_quote_insert"]
                /\ local' = [local EXCEPT ![t] =
                       [op |-> "create_quote", request |-> q,
                        q |-> [q EXCEPT !.estimated_total = Some(price.total_price)],
                        price |-> price]]
                /\ UNCHANGED response
    /\ UNCHANGED <<db, service, quoterequest>>

\* variant: an earlier quote of the same customer is replaced, not kept
create_quote_insert_upsert(t) ==
    /\ pc[t] = "create_quote_insert"
    /\ quoterequest' =
           IF \E i \in DOMAIN quoterequest :
                  quoterequest[i].customer_name = local[t].q.customer_name
           THEN [i \in DOMAIN quoterequest |->
                    IF quoterequest[i].customer_name = local[t].q.customer_name
                    THEN [_id |-> quoterequest[i]._id] @@ local[t].q
                    ELSE quoterequest[i]]
           ELSE create_document(quoterequest, local[t].q)
    /\ response' = [op |-> "create_quote", req |-> local[t].request, status |-> 200,
                    res |-> [id |-> quoterequest'[Len(quoterequest')]._id,
                             estimated_total |-> local[t].price.total_price]]
    /\ pc' = [pc EXCEPT ![t] = "idle"]
    /\ local' = [local EXCEPT ![t] = NoLocal]
    /\ UNCHANGED <<db, service>>

\* lines 173-174: doc_id = create_document("quoterequest", q); return
create_quote_insert(t) ==
    /\ pc[t] = "create_quote_insert"
    /\ quoterequest' = create_document(quoterequest, local[t].q)
    /\ response' = [op |-> "create_quote", req |-> local[t].request, status |-> 200,
                    res |-> [id |-> NewId,
                             estimated_total |-> local[t].price.total_price]]
    /\ pc' = [pc EXCEPT ![t] = "idle"]
    /\ local' = [local EXCEPT ![t] = NoLocal]
    /\ UNCHANGED <<db, service>>

\* ------------------------------------------------------------------------
\* seed_services (src/main.py:53-97)
\* ------------------------------------------------------------------------
SeedsInFlight == Cardinality({t \in Threads : pc[t] = "seed_services_insert"})

\* lines 55-59: the store check and existing = count_documents({})
seed_services_count(t) ==
    /\ pc[t] = "idle"
    /\ Len(service) + (SeedsInFlight + 1) * Len(defaults) <= MaxServices
    /\ IF db = "None"
       THEN /\ response' = [op |-> "seed_services", status |-> 500]
            /\ UNCHANGED <<pc, local>>
       ELSE IF Len(service) > 0
       THEN /\ response' = [op |-> "seed_services", status |-> 200, seeded |-> FALSE]
            /\ UNCHANGED <<pc, local>>
       ELSE /\ pc' = [pc EXCEPT ![t] = "seed_services_insert"]
            /\ local' = [local EXCEPT ![t] = [op |-> "seed_services", i |-> 1]]
            /\ UNCHANGED response
    /\ UNCHANGED <<db, service, quoterequest>>

\* lines 94-97: one turn of "for s in defaults: create_document(...)", and
\* the return after the last
seed_services_insert(t) ==
    /\ pc[t] = "seed_services_insert"
    /\ service' = create_document(service, defaults[local[t].i])
    /\ IF local[t].i = Len(defaults)
       THEN /\ pc' = [pc EXCEPT ![t] = "idle"]
            /\ local' = [local EXCEPT ![t] = NoLocal]
            /\ response' = [op |-> "seed_services", status |-> 200,
                            seeded |-> TRUE, count |-> Len(defaults)]
       ELSE /\ local' = [local EXCEPT ![t].i = @ + 1]
            /\ UNCHANGED <<pc, response>>
    /\ UNCHANGED <<db, quoterequest>>

\* ------------------------------------------------------------------------
\* Specifications
\* ------------------------------------------------------------------------
\* the server: every handler on every thread, interleaved at store accesses
Next ==
    \E t \in Threads :
        \/ seed_services_count(t)
        \/ seed_services_insert(t)
        \/ \E req \in ConcurrentPriceRequests : calculate_price(t, req)
        \/ \E q \in QuoteRequests : create_quote_price(t, q)
        \/ create_quote_insert(t)

Spec == Init /\ [][Next]_vars

\* the pricing engine alone, over the whole input set
NextPrice == \E t \in Threads : \E req \in PriceRequests : calculate_price(t, req)

PriceSpec == Init /\ [][NextPrice]_vars

\* ------------------------------------------------------------------------
\* Properties
\* ------------------------------------------------------------------------
IsPrefix(a, b) == Len(a) <= Len(b) /\ SubSeq(b, 1, Len(a)) = a

\* the total the pricing engine computes for a quote request's parameters
EngineTotal(q) == CalculatePrice(PriceRequestOf(q)).total_price

\* the outcome the three failure kinds prescribe for a price request
ExpectedStatus(req) ==
    IF db = "None" THEN 500
    ELSE IF ~HasService(req.service_key) THEN 404
    ELSE IF req.quantity < find_one(req.service_key).minimum_quantity THEN 400
    ELSE 200

PriceAnswered == response.op = "calculate_price" /\ response.status = 200

\* the service a successful price response was computed from
AnsweredService == ServiceOf(find_one(response.req.service_key))

\* the pre-discount unit price of the request a price response answers
AnsweredPre ==
    PreDiscountUnit(AnsweredService, response.req.colors, response.req.print_area)

\* C1: with the store configured, a create_quote call whose service_key
\* matches no record of the service collection is answered 404, ends the
\* handler, and leaves the quoterequest and the service collection as they
\* were before the call.
C1_UnknownServiceWritesNothing ==
    [][\A t \in Threads, q \in QuoteRequests :
          (db # "None" /\ ~HasService(q.service_key) /\ create_quote_price(t, q))
          => /\ response'.op = "create_quote"
             /\ response'.req = q
             /\ response'.status = 404
             /\ quoterequest' = quoterequest
             /\ service' = service
             /\ pc'[t] = "idle"]_vars

C1_Witness ==
    /\ db = "db"
    /\ Len(service) > 0
    /\ response.op = "create_quote"
    /\ response.status = 404
    /\ ~HasService(response.req.service_key)

\* C2: a create_quote call whose quantity is below the minimum_quantity of
\* the service its key resolves to is answered 400, ends the handler before
\* the persistence step, and leaves the quoterequest collection unchanged.
C2_BelowMinimumWritesNothing ==
    [][\A t \in Threads, q \in QuoteRequests :
          (/\ db # "None"
           /\ HasService(q.service_key)
           /\ q.quantity < find_one(q.service_key).minimum_quantity
           /\ create_quote_price(t, q))
          => /\ response'.op = "create_quote"
             /\ response'.req = q
             /\ response'.status = 400
             /\ quoterequest' = quoterequest
             /\ pc'[t] = "idle"
             /\ local'[t] = NoLocal]_vars

C2_Witness ==
    /\ response.op = "create_quote"
    /\ response.status = 400
    /\ HasService(response.req.service_key)
    /\ response.req.quantity < find_one(response.req.service_key).minimum_quantity
    /\ response.req.quantity >= 1

\* C3: a successful create_quote sets the quote's estimated_total to the
\* engine's total_price for its (service_key, quantity, colors, print_area),
\* whatever total the caller supplied, appends exactly one record holding
\* it, and returns that record's id and the same total.
C3_QuoteCarriesEngineTotal ==
    [][\A t \in Threads :
          /\ \A q \in QuoteRequests :
                (pc'[t] = "create_quote_insert" /\ create_quote_price(t, q))
                => /\ local'[t].q = [q EXCEPT !.estimated_total = Some(EngineTotal(q))]
                   /\ quoterequest' = quoterequest
          /\ create_quote_insert(t)
             => /\ Len(quoterequest') = Len(quoterequest) + 1
                /\ SubSeq(quoterequest', 1, Len(quoterequest)) = quoterequest
                /\ LET doc == quoterequest'[Len(quoterequest')]
                       req == local[t].request
                   IN  /\ doc.estimated_total = Some(EngineTotal(req))
                       /\ PriceRequestOf(doc) = PriceRequestOf(req)
                       /\ doc.customer_name = req.customer_name
                       /\ \A i \in DOMAIN quoterequest : quoterequest[i]._id # doc._id
                       /\ response'.status = 200
                       /\ response'.res.id = doc._id
                       /\ Some(response'.res.estimated_total) = doc.estimated_total]_vars

C3_Witness ==
    /\ response.op = "create_quote"
    /\ response.status = 200
    /\ response.req.estimated_total = Some(5)
    /\ Len(quoterequest) > 0
    /\ quoterequest[Len(quoterequest)]._id = response.res.id
    /\ quoterequest[Len(quoterequest)].estimated_total = Some(response.res.estimated_total)
    /\ response.res.estimated_total # 5

\* C4: the total_price of every price result equals round(unit_price *
\* quantity, 2) for the unit_price returned in the same result.
C4_TotalIsRoundedProduct ==
    PriceAnswered
    => response.res.total_price =
           Round2(FMul(H(response.res.unit_price), FFromInt(response.req.quantity)))

\* tshirt, 100 pieces, 3 colors: 6.7 * 0.75 rounds to 5.03, the total is 503.00
C4_Witness ==
    /\ PriceAnswered
    /\ response.req = [service_key |-> "tshirt", quantity |-> 100,
                       colors |-> 3, print_area |-> "medium"]
    /\ response.res.unit_price = 503
    /\ response.res.total_price = 50300

\* C5 as stated: quantity 20 / 50 / 100 reduce the pre-discount unit price
\* by 10% / 18% / 25% (then rounded to cents), and quantity 19 / 49 / 99
\* apply no reduction.
C5_AsStated ==
    PriceAnswered
    => LET pre == AnsweredPre
           unit_price == response.res.unit_price
           quantity == response.req.quantity
       IN  /\ quantity = 20 => unit_price = Round2(FMul(H(pre), H(90)))
           /\ quantity = 50 => unit_price = Round2(FMul(H(pre), H(82)))
           /\ quantity = 100 => unit_price = Round2(FMul(H(pre), H(75)))
           /\ quantity \in {19, 49, 99} => unit_price = pre

\* C5, amended: exactly one tier applies, the highest one reached.  The
\* unit price is round(pre * 0.9, 2) at quantity 20 and still at 49,
\* round(pre * 0.82, 2) at 50 and still at 99, round(pre * 0.75, 2) at 100
\* (never a product of several factors), and the pre-discount unit price
\* itself at 19 and below.
C5_DiscountStep ==
    PriceAnswered
    => LET pre == AnsweredPre
           unit_price == response.res.unit_price
           quantity == response.req.quantity
       IN  /\ quantity \in {20, 49} => unit_price = Round2(FMul(H(pre), H(90)))
           /\ quantity \in {50, 99} => unit_price = Round2(FMul(H(pre), H(82)))
           /\ quantity = 100 => unit_price = Round2(FMul(H(pre), H(75)))
           /\ quantity \in {1, 19} => unit_price = pre

\* a result for quantity 49 that carries the 10% tier
C5_Witness ==
    /\ PriceAnswered
    /\ response.req.quantity = 49
    /\ response.res.unit_price < AnsweredPre
    /\ response.res.unit_price = Round2(FMul(H(AnsweredPre), H(90)))

\* C6: for the service, print_area and quantity of every price result, the
\* pre-discount unit price of any smaller number of colors is not above the
\* one of the colors requested.
C6_MonotoneInColors ==
    PriceAnswered
    => \A c1 \in Colors :
          c1 <= response.req.colors
          => PreDiscountUnit(AnsweredService, c1, response.req.print_area) <= AnsweredPre

C6_Witness ==
    /\ PriceAnswered
    /\ response.req.colors >= 2
    /\ PreDiscountUnit(AnsweredService, 1, response.req.print_area) < AnsweredPre
    /\ PreDiscountUnit(AnsweredService, 0, response.req.print_area)
           = PreDiscountUnit(AnsweredService, 1, response.req.print_area)

\* C7: the outcome of a price request never depends on print_area being
\* recognized: the status is the one of the same request with "medium";
\* the breakdown reports 0.9 for small, 1.0 for medium, the service's
\* multiplier for large and 1.0 for anything else; and a request with an
\* unrecognized print_area gets the unit and total price of "medium".
C7_UnknownAreaIsMedium ==
    response.op = "calculate_price"
    => LET req == response.req
           medium == CalculatePrice([req EXCEPT !.print_area = "medium"])
       IN  /\ response.status = medium.status
           /\ response.status = 200
              => /\ response.res.breakdown.area_multiplier =
                       (CASE req.print_area = "small"  -> 90
                          [] req.print_area = "medium" -> 100
                          [] req.print_area = "large"  -> AnsweredService.print_area_multiplier
                          [] OTHER -> 100)
                 /\ req.print_area \notin {"small", "medium", "large"}
                    => /\ response.res.unit_price = medium.unit_price
                       /\ response.res.total_price = medium.total_price

C7_Witness ==
    /\ PriceAnswered
    /\ response.req.print_area = "huge"
    /\ response.res.breakdown.area_multiplier = 100
    /\ AnsweredService.print_area_multiplier # 100
    /\ CalculatePrice([response.req EXCEPT !.print_area = "large"]).unit_price
           # response.res.unit_price

\* C8: no two records of the service collection have the same key.
C8_UniqueKeys ==
    \A i, j \in DOMAIN service : service[i].key = service[j].key => i = j

\* C9: a price or create_quote call that fails is answered 500 when the
\* store is not configured (whatever the key and the quantity), else 404
\* when the key is unknown, else 400 when the quantity is below the
\* minimum; the failing call ends the handler and changes no collection.
C9_FailuresAreTerminal ==
    [][\A t \in Threads :
          /\ \A req \in ConcurrentPriceRequests :
                calculate_price(t, req)
                => /\ response'.status = ExpectedStatus(req)
                   /\ db = "None" => response'.status = 500
                   /\ UNCHANGED <<service, quoterequest, pc, local>>
          /\ \A q \in QuoteRequests :
                (ExpectedStatus(PriceRequestOf(q)) # 200 /\ create_quote_price(t, q))
                => /\ response'.op = "create_quote"
                   /\ response'.req = q
                   /\ response'.status = ExpectedStatus(PriceRequestOf(q))
                   /\ db = "None" => response'.status = 500
                   /\ UNCHANGED <<service, quoterequest, pc, local>>]_vars

C9_Witness ==
    /\ db = "None"
    /\ response.op \in {"calculate_price", "create_quote"}
    /\ response.status = 500
    /\ service = <<>>
    /\ quoterequest = <<>>

\* C10: no step of a price or create_quote handler changes the service
\* collection; every step leaves the quote records already stored in place
\* and unchanged and adds at most one; a record is added only by the insert
\* step of a create_quote, it is that handler's own request with the
\* engine's total for it, and the step touches no other thread's handler.
C10_QuotesOnlyAppend ==
    [][/\ IsPrefix(quoterequest, quoterequest')
       /\ Len(quoterequest') <= Len(quoterequest) + 1
       /\ quoterequest' # quoterequest
          => \E t \in Threads : pc[t] = "create_quote_insert" /\ pc'[t] = "idle"
       /\ \A t \in Threads :
             /\ (\/ \E req \in ConcurrentPriceRequests : calculate_price(t, req)
                 \/ \E q \in QuoteRequests : create_quote_price(t, q)
                 \/ create_quote_insert(t))
                => service' = service
             /\ create_quote_insert(t)
                => /\ quoterequest' = Append(quoterequest, [_id |-> NewId] @@ local[t].q)
                   /\ local[t].q =
                          [local[t].request EXCEPT
                              !.estimated_total = Some(EngineTotal(local[t].request))]
                   /\ \A u \in Threads \ {t} : pc'[u] = pc[u] /\ local'[u] = local[u]]_vars

\* one quote stored while another create_quote is between price and insert
C10_Witness ==
    /\ Len(quoterequest) >= 1
    /\ \E t \in Threads : pc[t] = "create_quote_insert"
    /\ response.op = "create_quote"
    /\ response.status = 200

====
